---- MODULE Spec2Model ----
(***************************************************************************)
(* Model of the video-frame-extractor conversion pipeline:                 *)
(*   videos_processor.py  extract_frames, create_pdf_from_frames,          *)
(*                        create_pptx_from_frames                          *)
(*   app.py               VideoConverterWorker.run / process_video         *)
(*                        VideoConverterApp.convert_videos and the slots   *)
(*                        update_detailed_progress, show_completion_message*)
(*                                                                         *)
(* Text produced by the program (file names, timestamps) is modelled as a  *)
(* sequence of one-character strings.  A frame rate is a rational number   *)
(* held as an integer count of 1/FpsUnit frames per second.  The           *)
(* floating-point product in the slide scaling is modelled bit for bit     *)
(* (IEEE-754 binary64, round to nearest even); the sampler's arithmetic    *)
(* is exact rational arithmetic.                                           *)
(***************************************************************************)
EXTENDS Integers, Sequences, FiniteSets, TLC

VARIABLES
    video_paths,       \* self.video_paths: the batch, a sequence of sources
    output_format,     \* self.output_format
    frame_interval,    \* self.frame_interval (seconds)
    slide_size,        \* <<prs.slide_width, prs.slide_height>>
    pc,                \* position of the worker in run()
    idx,               \* loop index of run(), 1-based
    frames,            \* process_video: the run returned by extract_frames
    extract_log,       \* levels of the messages extract_frames logged, last call
    result,            \* value process_video returned for the current task
    last_doc,          \* document built by the last renderer call, or NoDoc
    progress_details,  \* the dict of run()
    emitted,           \* detailed_progress_signal: values at each emit
    completed,         \* completed_signal: messages emitted, in order
    outcomes,          \* per task, in completion order: <<task index, success>>
    events,            \* calls made by the worker, in order
    file_names,        \* the path string of each entry of self.video_paths
    written,           \* documents saved by the worker: task and output path
    scratch,           \* per extract_frames call of the worker: task and output_dir
    disk,              \* frame files on disk: path, and the worker and task that wrote it
    convert_button,    \* self.convert_button.isEnabled()
    ui_queue,          \* signals queued for the UI thread, oldest first
    displayed,         \* what update_detailed_progress has shown, in order
    others             \* workers started by later clicks while this one exists

vars == <<video_paths, output_format, frame_interval, slide_size, pc, idx,
          frames, extract_log, result, last_doc, progress_details, emitted,
          completed, outcomes, events, file_names, written, scratch, disk,
          convert_button, ui_queue, displayed, others>>

\* the state of the window and of the workers started later
ui_vars == <<convert_button, displayed, others>>

----------------------------------------------------------------------------
(* Bounds of the model *)

MaxTasks == 3        \* longest batch
MaxFrames == 4       \* longest small source, in frames
MaxRun == 7          \* longest run handed to a renderer on its own
MaxDim == 6          \* largest side of the small images tried for scaling
MaxName == 3         \* longest stem of a video file name, in characters
MaxOthers == 1       \* most workers started by later clicks

(* Units and program constants *)

FpsUnit == 10 * 100  \* a frame rate f stands for f / FpsUnit frames per second
MaxInterval == 60    \* frame_interval_spin_box.setMaximum(60)
NameWidth == 5       \* f"frame_{frame_count:05d}.jpg"
TsWidth == 2         \* f"{...:02}"
FramesPerPage == 3   \* range(0, len(frames), 3)
ImageH == 80         \* pdf.image(..., h=80)
CaptionH == 10       \* pdf.cell(0, 10, ...)
BreakMargin == 15    \* set_auto_page_break(auto=True, margin=15)
PageHeight == 297    \* FPDF(): A4 portrait, millimetres
TopMargin == 10      \* FPDF(): default top margin, millimetres
SlideW == 9144000    \* Presentation(): default slide width, EMU
SlideH == 6858000    \* Presentation(): default slide height, EMU
MantBits == 53       \* significand bits of a Python float
ChunkBits == MantBits \div 8   \* digits produced per division step
LimbBits == (MantBits + 1) \div 3   \* digits multiplied per step

\* Python values that process_video can return besides a path
None == "None"
False == "False"
NoDoc == [kind |-> "none"]

----------------------------------------------------------------------------
(* Python helpers *)

Max(a, b) == IF a >= b THEN a ELSE b

Min(a, b) == IF a <= b THEN a ELSE b

\* ceil(a / b) for a >= 0, b > 0
CeilDiv(a, b) == (a + b - 1) \div b

\* int(n / d) for integers n and d > 0: truncation towards zero
TruncDiv(n, d) == IF n >= 0 THEN n \div d ELSE -((-n) \div d)

Digit(d) == <<"0", "1", "2", "3", "4", "5", "6", "7", "8", "9">>[d + 1]

RECURSIVE Digits(_)
\* str(n) for n >= 0
Digits(n) == IF n < 10 THEN <<Digit(n)>> ELSE Append(Digits(n \div 10), Digit(n % 10))

RECURSIVE Zeros(_)
Zeros(k) == IF k <= 0 THEN <<>> ELSE <<"0">> \o Zeros(k - 1)

\* f"{n:0{width}d}": sign first, then zeros up to the width, then the digits
ZeroPad(n, width) ==
    LET sign == IF n < 0 THEN <<"-">> ELSE <<>>
        body == Digits(IF n < 0 THEN -n ELSE n)
    IN  sign \o Zeros(width - Len(sign) - Len(body)) \o body

----------------------------------------------------------------------------
(* videos_processor.py: extract_frames                                     *)
(*                                                                         *)
(* A source is what cv2 and the file system report for one video path:     *)
(*   status        "missing"     os.path.getsize raises                    *)
(*                 "unopenable"  cap.isOpened() is False                   *)
(*                 "ok"          the capture opens                         *)
(*   fps           CAP_PROP_FPS, in 1/FpsUnit frames per second            *)
(*   total_frames  CAP_PROP_FRAME_COUNT                                    *)
(*   bad           the frame indices at which cap.read() returns False     *)
(*   size          <<width, height>> of every decoded frame, in pixels     *)

Source(status, fps, n, bad, size) ==
    [status |-> status, fps |-> fps, total_frames |-> n, bad |-> bad, size |-> size]

\* frame_interval = max(1, int(fps * interval))
MutStride(fps, interval) == Max(1, TruncDiv(fps, FpsUnit))

Stride(fps, interval) == Max(1, TruncDiv(fps * interval, FpsUnit))

\* current_time_sec = frame_count / fps as the fraction num / den, den > 0
TimeNum(frame_count, fps) ==
    IF fps > 0 THEN frame_count * FpsUnit ELSE -(frame_count * FpsUnit)

TimeDen(fps) == IF fps > 0 THEN fps ELSE -fps

\* int(current_time_sec // 3600)
Hours(frame_count, fps) == TimeNum(frame_count, fps) \div (3600 * TimeDen(fps))

\* int((current_time_sec % 3600) // 60)
Minutes(frame_count, fps) ==
    (TimeNum(frame_count, fps) % (3600 * TimeDen(fps))) \div (60 * TimeDen(fps))

\* int(current_time_sec % 60)
Seconds(frame_count, fps) ==
    (TimeNum(frame_count, fps) % (60 * TimeDen(fps))) \div TimeDen(fps)

\* timestamp = f"{hours:02}:{minutes:02}:{seconds:02}"
Timestamp(frame_count, fps) ==
    ZeroPad(Hours(frame_count, fps), TsWidth) \o <<":">>
        \o ZeroPad(Minutes(frame_count, fps), TsWidth) \o <<":">>
        \o ZeroPad(Seconds(frame_count, fps), TsWidth)

\* os.path.join(output_dir, f"frame_{frame_count:05d}.jpg")
FrameName(output_dir, frame_count) ==
    [dir  |-> output_dir,
     file |-> <<"f", "r", "a", "m", "e", "_">> \o ZeroPad(frame_count, NameWidth)
                  \o <<".", "j", "p", "g">>]

RECURSIVE SampleLoop(_, _, _, _, _)
\* while frame_count < total_frames: ... frame_count += frame_interval
\* The value is [kind, frames]: "return" with the frames extracted, or
\* "raise" when frame_count / fps divides by zero.
SampleLoop(src, stride, output_dir, frame_count, extracted_frames) ==
    IF frame_count >= src.total_frames
        THEN [kind |-> "return", frames |-> extracted_frames]
    ELSE IF frame_count \in src.bad
        THEN [kind |-> "return", frames |-> extracted_frames]
    ELSE IF src.fps = 0
        THEN [kind |-> "raise", frames |-> <<>>]
    ELSE SampleLoop(src, stride, output_dir, frame_count + stride,
                    Append(extracted_frames,
                           [path      |-> FrameName(output_dir, frame_count),
                            timestamp |-> Timestamp(frame_count, src.fps)]))

\* The body of extract_frames inside its try block: [kind, frames, log].
ExtractBody(src, interval, output_dir) ==
    IF src.status = "missing"
        THEN [kind |-> "raise", frames |-> <<>>, log |-> <<"info", "info">>]
    ELSE IF src.status = "unopenable"
        THEN [kind |-> "return", frames |-> <<>>,
              log |-> <<"info", "info", "info", "info", "error">>]
    ELSE LET loop == SampleLoop(src, Stride(src.fps, interval), output_dir, 0, <<>>)
         IN  [kind   |-> loop.kind,
              frames |-> loop.frames,
              log    |-> <<"info", "info", "info", "info", "info", "info">>
                            \o (IF loop.kind = "return" THEN <<"info">> ELSE <<>>)]

\* extract_frames without its except clause
MutExtractFrames(src, interval, output_dir) == ExtractBody(src, interval, output_dir)

\* extract_frames(video_path, interval, output_dir, logger): the except
\* clause logs two errors and returns [].
extract_frames(src, interval, output_dir) ==
    LET body == ExtractBody(src, interval, output_dir)
    IN  IF body.kind = "raise"
            THEN [kind |-> "return", frames |-> <<>>,
                  log  |-> body.log \o <<"error", "error">>]
            ELSE body

----------------------------------------------------------------------------
(* Python float arithmetic (IEEE-754 binary64, round to nearest, ties to   *)
(* even) for the expression  n * (a / b)  of the slide scaling.            *)
(*                                                                         *)
(* A positive float is [m, e]: m is the significand, MantBits bits, most   *)
(* significant first and equal to 1; e is the binary exponent of that      *)
(* first bit.  Its value is the sum of m[i] * 2^(e - i + 1).               *)

RECURSIVE IntBits(_)
\* binary digits of n >= 1, most significant first
IntBits(n) == IF n < 2 THEN <<n>> ELSE Append(IntBits(n \div 2), n % 2)

RECURSIVE BitsInt(_)
\* the integer whose binary digits are s
BitsInt(s) ==
    IF s = <<>> THEN 0 ELSE 2 * BitsInt(SubSeq(s, 1, Len(s) - 1)) + s[Len(s)]

RECURSIVE IncBits(_)
\* s + 1; one bit longer when s is all ones
IncBits(s) ==
    IF s = <<>> THEN <<1>>
    ELSE IF s[Len(s)] = 0 THEN SubSeq(s, 1, Len(s) - 1) \o <<1>>
    ELSE IncBits(SubSeq(s, 1, Len(s) - 1)) \o <<0>>

RECURSIVE AnyOne(_, _)
\* some bit of s at position >= i is 1
AnyOne(s, i) == IF i > Len(s) THEN FALSE ELSE s[i] = 1 \/ AnyOne(s, i + 1)

\* Round the bits (first bit 1, exponent e; sticky: a non-zero tail was cut
\* off) to MantBits bits, nearest, ties to even.
FRound(bits, sticky, e) ==
    LET full  == IF Len(bits) >= MantBits THEN bits
                 ELSE bits \o [i \in 1..(MantBits - Len(bits)) |-> 0]
        head  == SubSeq(full, 1, MantBits)
        guard == IF Len(full) > MantBits THEN full[MantBits + 1] ELSE 0
        tail  == sticky \/ AnyOne(full, MantBits + 2)
        up    == guard = 1 /\ (tail \/ head[MantBits] = 1)
        m     == IF up THEN IncBits(head) ELSE head
    IN  IF Len(m) > MantBits
            THEN [m |-> SubSeq(m, 1, MantBits), e |-> e + 1]
            ELSE [m |-> m, e |-> e]

RECURSIVE NormDiv(_, _, _)
\* a / b = (a0 / b0) * 2^e with 1 <= a0 / b0 < 2
NormDiv(a, b, e) ==
    IF a >= 2 * b THEN NormDiv(a, 2 * b, e + 1)
    ELSE IF a < b THEN NormDiv(2 * a, b, e - 1)
    ELSE [a |-> a, b |-> b, e |-> e]

\* the k binary digits of v, for 0 <= v < 2^k
FixedBits(v, k) == [i \in 1..k |-> (v \div 2^(k - i)) % 2]

RECURSIVE DivChunks(_, _, _)
\* the next ChunkBits * k binary digits of r / b, for 0 <= r < b, and what
\* is left of r after them: [bits, rem]
DivChunks(r, b, k) ==
    IF k = 0 THEN [bits |-> <<>>, rem |-> r]
    ELSE LET rest == DivChunks((r * 2^ChunkBits) % b, b, k - 1)
         IN  [bits |-> FixedBits((r * 2^ChunkBits) \div b, ChunkBits) \o rest.bits,
              rem  |-> rest.rem]

\* a / b for integers a, b >= 1 (true division)
FDiv(a, b) ==
    LET n == NormDiv(a, b, 0)
        d == DivChunks(n.a - n.b, n.b, CeilDiv(MantBits, ChunkBits))
    IN  FRound(<<1>> \o d.bits, d.rem # 0, n.e)

\* x times the integer whose binary digits are s, for x * 2^Len(s) < 2^31:
\* [bits, carry], Len(s) digits and what is carried out, after adding cin
MulLimb(s, x, cin) ==
    LET t == BitsInt(s) * x + cin
    IN  [bits |-> FixedBits(t % 2^Len(s), Len(s)), carry |-> t \div 2^Len(s)]

\* n * f for an integer n, 1 <= n < 2^(31 - LimbBits), and a float f
FMulInt(n, f) ==
    LET lo  == MulLimb(SubSeq(f.m, 2 * LimbBits + 1, MantBits), n, 0)
        mid == MulLimb(SubSeq(f.m, LimbBits + 1, 2 * LimbBits), n, lo.carry)
        hi  == BitsInt(SubSeq(f.m, 1, LimbBits)) * n + mid.carry
        p   == IntBits(hi) \o mid.bits \o lo.bits
    IN  FRound(p, FALSE, f.e + (Len(p) - MantBits))

\* int(f) for a float f > 0 below 2^31
FInt(f) == IF f.e < 0 THEN 0 ELSE BitsInt(SubSeq(f.m, 1, f.e + 1))

RECURSIVE BitsGT(_, _, _)
BitsGT(s, t, i) ==
    IF i > Len(s) THEN FALSE
    ELSE IF s[i] # t[i] THEN s[i] > t[i]
    ELSE BitsGT(s, t, i + 1)

\* f > g
FGT(f, g) == f.e > g.e \/ (f.e = g.e /\ BitsGT(f.m, g.m, 1))

\* int(n * (a / b))
ScaledInt(n, a, b) == FInt(FMulInt(n, FDiv(a, b)))

----------------------------------------------------------------------------
(* videos_processor.py: create_pdf_from_frames                             *)
(*                                                                         *)
(* imgs[k] is what the file of frame k is when the renderer reads it:      *)
(*   "ok"            it loads, decodes and embeds                          *)
(*   "unreadable"    it cannot be loaded or decoded                        *)
(*   "unembeddable"  it decodes, but embedding it in the document raises   *)
(* save_ok: the document can be written to the output folder.              *)
(* An FPDF object is [pages, y, warnings]: each page is the sequence of    *)
(* the elements placed on it, y is the cursor.                             *)

ImgStatus == {"ok", "unreadable", "unembeddable"}

\* y_positions = [10, 90, 170]
MutYPositions == <<10, 90, 180>>

y_positions == <<10, 90, 170>>

\* self.page_break_trigger of FPDF after set_auto_page_break(margin=15)
page_break_trigger == PageHeight - BreakMargin

\* pdf.add_page()
PdfAddPage(pdf) == [pdf EXCEPT !.pages = Append(@, <<>>), !.y = TopMargin]

\* place one element on the current page
PdfPut(pdf, el) == [pdf EXCEPT !.pages[Len(pdf.pages)] = Append(@, el)]

\* pdf.cell(0, 10, caption, ln=True, align="C"): FPDF breaks the page first
\* when the cell would pass the trigger, then moves the cursor below it.
PdfCell(pdf, k, caption) ==
    LET p == IF pdf.y + CaptionH > page_break_trigger THEN PdfAddPage(pdf) ELSE pdf
        q == PdfPut(p, [type |-> "caption", frame |-> k, y |-> p.y, text |-> caption])
    IN  [q EXCEPT !.y = p.y + CaptionH]

\* the body of the inner loop for frame k = i + j (1-based), slot j (0-based)
PdfSlot(pdf, fs, imgs, k, j) ==
    IF imgs[k] # "ok"
        THEN [pdf EXCEPT !.warnings = @ + 1]
        ELSE LET a == PdfPut(pdf, [type |-> "image", frame |-> k,
                                   y |-> y_positions[j + 1], text |-> <<>>])
                 b == [a EXCEPT !.y = y_positions[j + 1] + ImageH]
             IN  PdfCell(b, k, <<fs[k].path.file, fs[k].timestamp>>)

RECURSIVE PdfSlots(_, _, _, _, _)
\* for j, frame_data in enumerate(frames[i:i+3])
PdfSlots(pdf, fs, imgs, i, j) ==
    IF j >= FramesPerPage \/ i + j + 1 > Len(fs) THEN pdf
    ELSE PdfSlots(PdfSlot(pdf, fs, imgs, i + j + 1, j), fs, imgs, i, j + 1)

RECURSIVE PdfPages(_, _, _, _)
\* for i in range(0, len(frames), 3): pdf.add_page(); ...
PdfPages(pdf, fs, imgs, i) ==
    IF i >= Len(fs) THEN pdf
    ELSE PdfPages(PdfSlots(PdfAddPage(pdf), fs, imgs, i, 0),
                  fs, imgs, i + FramesPerPage)

\* create_pdf_from_frames(frames, video_filename, output_folder, logger)
\* The value is [value, doc]: the path returned (or None) and the document.
create_pdf_from_frames(fs, imgs, save_ok) ==
    LET pdf == PdfPages([pages |-> <<>>, y |-> 0, warnings |-> 0], fs, imgs, 0)
    IN  [value |-> IF save_ok THEN "out.pdf" ELSE None,
         doc   |-> [kind |-> "pdf", pages |-> pdf.pages, saved |-> save_ok,
                    warnings |-> pdf.warnings, imgs |-> imgs, save_ok |-> save_ok]]

----------------------------------------------------------------------------
(* videos_processor.py: create_pptx_from_frames                            *)

NoPicture == [left |-> -1, top |-> -1, width |-> -1, height |-> -1]

\* the scaling and centring of one picture (lines 77 to 85)
MutScaleImage(frame_width, frame_height, slide_width, slide_height) ==
    LET fit == IF FGT(FDiv(frame_height, slide_height), FDiv(frame_width, slide_width))
                   THEN [width  |-> slide_width,
                         height |-> ScaledInt(frame_height, slide_width, frame_width)]
                   ELSE [width  |-> ScaledInt(frame_width, slide_height, frame_height),
                         height |-> slide_height]
    IN  [left   |-> (slide_width - fit.width) \div 2,
         top    |-> (slide_height - fit.height) \div 2,
         width  |-> fit.width,
         height |-> fit.height]

ScaleImage(frame_width, frame_height, slide_width, slide_height) ==
    LET fit == IF FGT(FDiv(frame_width, slide_width), FDiv(frame_height, slide_height))
                   THEN [width  |-> slide_width,
                         height |-> ScaledInt(frame_height, slide_width, frame_width)]
                   ELSE [width  |-> ScaledInt(frame_width, slide_height, frame_height),
                         height |-> slide_height]
    IN  [left   |-> (slide_width - fit.width) \div 2,
         top    |-> (slide_height - fit.height) \div 2,
         width  |-> fit.width,
         height |-> fit.height]

\* title_frame.text = f"Frame {idx + 1} : {timestamp}", k = idx + 1
TitleText(k, timestamp) ==
    <<"F", "r", "a", "m", "e", " ">> \o Digits(k) \o <<" ", ":", " ">> \o timestamp

RECURSIVE PptxLoop(_, _, _, _, _, _)
\* for idx, frame_data in enumerate(frames), k = idx + 1.  The value is
\* [kind, prs]: "raise" when add_picture raises.
PptxLoop(prs, fs, imgs, size, canvas, k) ==
    IF k > Len(fs) THEN [kind |-> "return", prs |-> prs]
    ELSE LET slide == [frame |-> k, picture |-> NoPicture, title |-> <<>>]
             added == [prs EXCEPT !.slides = Append(@, slide)]
         IN  IF imgs[k] = "unreadable"
                 THEN PptxLoop([added EXCEPT !.warnings = @ + 1],
                               fs, imgs, size, canvas, k + 1)
             ELSE IF imgs[k] = "unembeddable"
                 THEN [kind |-> "raise", prs |-> added]
             ELSE PptxLoop(
                      [added EXCEPT !.slides[k] =
                          [frame   |-> k,
                           picture |-> ScaleImage(size[1], size[2], canvas[1], canvas[2]),
                           title   |-> TitleText(k, fs[k].timestamp)]],
                      fs, imgs, size, canvas, k + 1)

\* create_pptx_from_frames(frames, video_filename, output_folder, logger)
create_pptx_from_frames(fs, imgs, size, canvas, save_ok) ==
    LET loop == PptxLoop([slides |-> <<>>, warnings |-> 0], fs, imgs, size, canvas, 1)
        ok   == loop.kind = "return" /\ save_ok
    IN  [value |-> IF ok THEN "out.pptx" ELSE None,
         doc   |-> [kind |-> "pptx", slides |-> loop.prs.slides, saved |-> ok,
                    warnings |-> loop.prs.warnings, imgs |-> imgs,
                    save_ok |-> save_ok, size |-> size]]

----------------------------------------------------------------------------
(* Output paths: os.path on POSIX.  A path is a sequence of characters.    *)

\* the last position of character c in p, 0 when there is none: p.rfind(c) + 1
RECURSIVE RFind(_, _, _)
RFind(p, c, i) == IF i = 0 THEN 0 ELSE IF p[i] = c THEN i ELSE RFind(p, c, i - 1)

\* os.path.basename(p): what follows the last "/"
basename(p) == SubSeq(p, RFind(p, "/", Len(p)) + 1, Len(p))

\* os.path.splitext(p): the extension starts at the last dot of the last
\* component, unless that component has only dots before it
splitext(p) ==
    LET sepIndex == RFind(p, "/", Len(p))
        dotIndex == RFind(p, ".", Len(p))
        named    == \E i \in (sepIndex + 1)..(dotIndex - 1) : p[i] # "."
    IN  IF dotIndex > sepIndex /\ named
            THEN [root |-> SubSeq(p, 1, dotIndex - 1), ext |-> SubSeq(p, dotIndex, Len(p))]
            ELSE [root |-> p, ext |-> <<>>]

\* os.path.join(a, b) for a relative b
join(a, b) == a \o <<"/">> \o b

\* self.output_folder
output_folder == <<"o", "u", "t">>

\* base_name = os.path.splitext(os.path.basename(video_path))[0]
base_name(video_path) == splitext(basename(video_path)).root

\* output_pdf = os.path.join(output_folder, f"{os.path.splitext(video_filename)[0]}.pdf")
output_pdf(video_filename, folder) ==
    join(folder, splitext(video_filename).root \o <<".", "p", "d", "f">>)

\* output_pptx = os.path.join(output_folder, f"{os.path.splitext(video_filename)[0]}.pptx")
output_pptx(video_filename, folder) ==
    join(folder, splitext(video_filename).root \o <<".", "p", "p", "t", "x">>)

\* the path of the document process_video has written for video_path
OutputPath(fmt, video_path, folder) ==
    IF fmt = "pdf" THEN output_pdf(base_name(video_path), folder)
    ELSE output_pptx(base_name(video_path), folder)

----------------------------------------------------------------------------
(* The frame files on disk and the signals queued for the UI thread        *)

\* cv2.imwrite(frame_name, frame) for every frame of a run: a file written
\* again belongs to its last writer
imwrite(files, fs, worker, task) ==
    {f \in files : \A k \in DOMAIN fs : fs[k].path # f.path}
        \cup {[path |-> fs[k].path, worker |-> worker, task |-> task] : k \in DOMAIN fs}

\* a signal emitted by a worker, queued for the UI thread.  sent is the
\* value of the worker's progress_details at the emit; a detailed progress
\* signal carries the dict itself, not this value.
Queued(sig, worker, final, sent) ==
    [sig |-> sig, worker |-> worker, final |-> final, sent |-> sent]

----------------------------------------------------------------------------
(* app.py: VideoConverterWorker                                            *)

\* `if result:` / `if not frames:` truth tests
Truthy(v) == v \notin {False, None}

MutRunIsEmpty(fs) == FALSE

\* `not frames`
RunIsEmpty(fs) == fs = <<>>

\* the dispatch of process_video on self.output_format (lines 213 to 219)
RenderCall(fmt, fs, imgs, size, canvas, save_ok) ==
    IF fmt = "pdf" THEN create_pdf_from_frames(fs, imgs, save_ok)
    ELSE IF fmt = "pptx" THEN create_pptx_from_frames(fs, imgs, size, canvas, save_ok)
    ELSE [value |-> False, doc |-> NoDoc]

\* the counting of run() for one task (lines 141 to 151)
MutAccount(pd, res, i) ==
    [pd EXCEPT !.successful_conversions = IF Truthy(res) THEN @ + 1 ELSE @,
               !.processed_files = i]

Account(pd, res, i) ==
    [pd EXCEPT !.successful_conversions = IF Truthy(res) THEN @ + 1 ELSE @,
               !.failed_conversions = IF Truthy(res) THEN @ ELSE @ + 1,
               !.processed_files = i]

\* where run() goes after task i of n: the for loop has no early exit
MutAfterTask(i, n, res) == IF i < n /\ Truthy(res) THEN "extract" ELSE "final"

AfterTask(i, n, res) == IF i < n THEN "extract" ELSE "final"

\* run(), lines 124 to 134
RunStart ==
    /\ pc = "start"
    /\ pc' = "extract"
    /\ idx' = 1
    /\ progress_details' = [total_files |-> Len(video_paths), processed_files |-> 0,
                            successful_conversions |-> 0, failed_conversions |-> 0]
    /\ UNCHANGED <<video_paths, output_format, frame_interval, slide_size, frames,
                   extract_log, result, last_doc, emitted, completed, outcomes, events>>
    /\ UNCHANGED <<file_names, written, scratch, disk, ui_queue, ui_vars>>

\* process_video up to `if not frames` (lines 201 to 207).  exc: something
\* in the body raises before the sampler is called; the except clause of
\* process_video (lines 220 to 222) then returns False.
ProcessExtract ==
    /\ pc = "extract"
    /\ \E exc \in BOOLEAN :
          LET r     == extract_frames(video_paths[idx], frame_interval, "frames")
              empty == r.kind = "raise" \/ RunIsEmpty(r.frames)
          IN  IF exc
                  THEN /\ frames' = <<>>
                       /\ extract_log' = <<>>
                       /\ result' = False
                       /\ pc' = "account"
                       /\ UNCHANGED <<scratch, disk>>
                       /\ events' = Append(events, [op |-> "except", task |-> idx,
                                                    n |-> 0, raised |-> FALSE,
                                                    diag |-> FALSE])
                  ELSE /\ frames' = r.frames
                       /\ extract_log' = r.log
                       /\ result' = False
                       /\ pc' = IF empty THEN "account" ELSE "render"
                       /\ scratch' = Append(scratch, [task |-> idx, dir |-> "frames"])
                       /\ disk' = imwrite(disk, r.frames, 0, idx)
                       /\ events' = Append(events,
                              [op |-> "extract", task |-> idx, n |-> Len(r.frames),
                               raised |-> r.kind = "raise",
                               diag |-> \E k \in 1..Len(r.log) : r.log[k] = "error"])
    /\ last_doc' = NoDoc
    /\ UNCHANGED <<video_paths, output_format, frame_interval, slide_size, idx,
                   progress_details, emitted, completed, outcomes>>
    /\ UNCHANGED <<file_names, written, ui_queue, ui_vars>>

\* process_video from base_name on (lines 209 to 219)
ProcessRender ==
    /\ pc = "render"
    /\ \E imgs \in [1..Len(frames) -> ImgStatus], save_ok \in BOOLEAN :
          LET r == RenderCall(output_format, frames, imgs, video_paths[idx].size,
                              slide_size, save_ok)
          IN  /\ result' = r.value
              /\ last_doc' = r.doc
              /\ written' = IF Truthy(r.value)
                                THEN Append(written,
                                         [task |-> idx,
                                          path |-> OutputPath(output_format,
                                                       file_names[idx], output_folder)])
                                ELSE written
    /\ pc' = "account"
    /\ events' = Append(events, [op |-> "render", task |-> idx, n |-> Len(frames),
                                 raised |-> FALSE, diag |-> FALSE])
    /\ UNCHANGED <<video_paths, output_format, frame_interval, slide_size, idx,
                   frames, extract_log, progress_details, emitted, completed, outcomes>>
    /\ UNCHANGED <<file_names, scratch, disk, ui_queue, ui_vars>>

\* run(), lines 141 to 156: count the task, report a failure, emit progress
RunAccount ==
    /\ pc = "account"
    /\ progress_details' = Account(progress_details, result, idx)
    /\ emitted' = Append(emitted, progress_details')
    /\ completed' = IF Truthy(result) THEN completed
                    ELSE Append(completed, [kind |-> "failed", task |-> idx])
    /\ outcomes' = Append(outcomes, [task |-> idx, success |-> Truthy(result)])
    /\ events' = Append(events, [op |-> "emit", task |-> idx, n |-> Len(frames),
                                 raised |-> FALSE, diag |-> FALSE])
    /\ pc' = AfterTask(idx, Len(video_paths), result)
    /\ idx' = IF pc' = "extract" THEN idx + 1 ELSE idx
    /\ ui_queue' = ui_queue
                     \o (IF Truthy(result) THEN <<>>
                         ELSE <<Queued("completed", 0, FALSE, progress_details')>>)
                     \o <<Queued("detailed", 0, FALSE, progress_details')>>
    /\ UNCHANGED <<video_paths, output_format, frame_interval, slide_size, frames,
                   extract_log, result, last_doc>>
    /\ UNCHANGED <<file_names, written, scratch, disk, ui_vars>>

\* run(), lines 186 to 197: the final message
RunFinish ==
    /\ pc = "final"
    /\ pc' = "done"
    /\ completed' = Append(completed,
                           [kind       |-> "summary",
                            total      |-> progress_details.total_files,
                            successful |-> progress_details.successful_conversions,
                            failed     |-> progress_details.failed_conversions])
    /\ ui_queue' = Append(ui_queue, Queued("completed", 0, TRUE, progress_details))
    /\ UNCHANGED <<video_paths, output_format, frame_interval, slide_size, idx,
                   frames, extract_log, result, last_doc, progress_details, emitted,
                   outcomes, events>>
    /\ UNCHANGED <<file_names, written, scratch, disk, ui_vars>>

----------------------------------------------------------------------------
(* app.py: VideoConverterApp, the UI thread, and the workers that later    *)
(* clicks on Start Conversion create.  Worker 0 is the worker above; the   *)
(* worker others[w] runs the same code on the same selection, its state    *)
(* being [pc, idx, frames, result, progress_details].  Signals reach the   *)
(* UI thread through queued connections, one queue, in the order emitted.  *)

\* what the actions of the UI thread and of the other workers leave alone
worker_vars == <<video_paths, output_format, frame_interval, slide_size, pc, idx,
                 frames, extract_log, result, last_doc, progress_details, emitted,
                 completed, outcomes, events, file_names, written, scratch>>

\* VideoConverterWorker(...): a worker just constructed and started
NewWorker ==
    [pc |-> "start", idx |-> 0, frames |-> <<>>, result |-> False,
     progress_details |-> [total_files |-> 0, processed_files |-> 0,
                           successful_conversions |-> 0, failed_conversions |-> 0]]

\* the dict a detailed progress signal of the given worker refers to, as it is now
ProgressOf(worker) ==
    IF worker = 0 THEN progress_details ELSE others[worker].progress_details

\* convert_videos (lines 619 to 653): a click on the enabled button starts
\* another worker on the same selection and disables the button
convert_videos ==
    /\ convert_button
    /\ Len(others) < MaxOthers
    /\ others' = Append(others, NewWorker)
    /\ convert_button' = FALSE
    /\ UNCHANGED <<worker_vars, disk, ui_queue, displayed>>

\* update_detailed_progress (lines 660 to 666): the slot reads the dict it
\* was sent, which is the worker's own dict
update_detailed_progress ==
    /\ ui_queue # <<>>
    /\ Head(ui_queue).sig = "detailed"
    /\ displayed' = Append(displayed, [worker |-> Head(ui_queue).worker,
                                       sent   |-> Head(ui_queue).sent,
                                       shown  |-> ProgressOf(Head(ui_queue).worker)])
    /\ ui_queue' = Tail(ui_queue)
    /\ UNCHANGED <<worker_vars, disk, convert_button, others>>

\* show_completion_message (lines 668 to 678), for every completed_signal:
\* the message box is shown and dismissed, the button is enabled again
show_completion_message ==
    /\ ui_queue # <<>>
    /\ Head(ui_queue).sig = "completed"
    /\ convert_button' = TRUE
    /\ ui_queue' = Tail(ui_queue)
    /\ UNCHANGED <<worker_vars, disk, displayed, others>>

\* run(), lines 124 to 134, in worker w
OtherStart(w) ==
    /\ others[w].pc = "start"
    /\ others' = [others EXCEPT ![w].pc = "extract", ![w].idx = 1,
                      ![w].progress_details =
                          [total_files |-> Len(video_paths), processed_files |-> 0,
                           successful_conversions |-> 0, failed_conversions |-> 0]]
    /\ UNCHANGED <<worker_vars, disk, convert_button, ui_queue, displayed>>

\* process_video up to `if not frames` (lines 201 to 207), in worker w
OtherExtract(w) ==
    /\ others[w].pc = "extract"
    /\ \E exc \in BOOLEAN :
          LET r     == extract_frames(video_paths[others[w].idx], frame_interval, "frames")
              empty == r.kind = "raise" \/ RunIsEmpty(r.frames)
          IN  IF exc
                  THEN /\ others' = [others EXCEPT ![w].frames = <<>>,
                                         ![w].result = False, ![w].pc = "account"]
                       /\ UNCHANGED disk
                  ELSE /\ others' = [others EXCEPT ![w].frames = r.frames,
                                         ![w].result = False,
                                         ![w].pc = IF empty THEN "account" ELSE "render"]
                       /\ disk' = imwrite(disk, r.frames, w, others[w].idx)
    /\ UNCHANGED <<worker_vars, convert_button, ui_queue, displayed>>

\* process_video from base_name on (lines 209 to 219), in worker w
OtherRender(w) ==
    /\ others[w].pc = "render"
    /\ \E imgs \in [1..Len(others[w].frames) -> ImgStatus], save_ok \in BOOLEAN :
          LET r == RenderCall(output_format, others[w].frames, imgs,
                              video_paths[others[w].idx].size, slide_size, save_ok)
          IN  others' = [others EXCEPT ![w].result = r.value, ![w].pc = "account"]
    /\ UNCHANGED <<worker_vars, disk, convert_button, ui_queue, displayed>>

\* run(), lines 141 to 156, in worker w
OtherAccount(w) ==
    /\ others[w].pc = "account"
    /\ LET o    == others[w]
           pd   == Account(o.progress_details, o.result, o.idx)
           next == AfterTask(o.idx, Len(video_paths), o.result)
       IN  /\ others' = [others EXCEPT ![w].progress_details = pd,
                             ![w].pc = next,
                             ![w].idx = IF next = "extract" THEN o.idx + 1 ELSE o.idx]
           /\ ui_queue' = ui_queue
                            \o (IF Truthy(o.result) THEN <<>>
                                ELSE <<Queued("completed", w, FALSE, pd)>>)
                            \o <<Queued("detailed", w, FALSE, pd)>>
    /\ UNCHANGED <<worker_vars, disk, convert_button, displayed>>

\* run(), lines 186 to 197, in worker w
OtherFinish(w) ==
    /\ others[w].pc = "final"
    /\ others' = [others EXCEPT ![w].pc = "done"]
    /\ ui_queue' = Append(ui_queue,
                          Queued("completed", w, TRUE, others[w].progress_details))
    /\ UNCHANGED <<worker_vars, disk, convert_button, displayed>>

----------------------------------------------------------------------------
(* Inputs *)

HD == <<1920, 1080>>

Unopenable == Source("unopenable", 0, 0, {}, HD)

Missing == Source("missing", 0, 0, {}, HD)

\* fps 25, no frame
Empty == Source("ok", 25 * FpsUnit, 0, {}, HD)

\* fps 25, 26 frames: two samples at an interval of one second
Good == Source("ok", 25 * FpsUnit, 26, {}, HD)

\* one frame per second, n frames: n samples at an interval of one second
RunSource(n, size) == Source("ok", FpsUnit, n, {}, size)

BatchSources == {Unopenable, Empty, Good}

Batches == UNION {[1..n -> BatchSources] : n \in 1..MaxTasks}

FpsValues == {-25 * FpsUnit, 0, FpsUnit \div 2, 25 * FpsUnit, 30 * FpsUnit, 29970, 23976}

SmallSources ==
    {Source("ok", f, n, b, HD) :
        f \in FpsValues, n \in 0..MaxFrames, b \in {{}} \cup {{i} : i \in 0..(MaxFrames - 1)}}

LongSources ==
    {Source("ok", f, n, {}, HD) : f \in {25 * FpsUnit, 30 * FpsUnit, 29970}, n \in {126, 300}}

SampleSources == SmallSources \cup LongSources \cup {Unopenable, Missing}

\* fps 30, 56 minutes: the last sample at an interval of 60 s is frame 100800
HourLong == Source("ok", 30 * FpsUnit, 100801, {}, HD)

ScaleSizes ==
    ((1..MaxDim) \X (1..MaxDim))
        \cup {HD, <<1000, 2000>>, <<1084, 813>>, <<640, 480>>, <<1280, 720>>,
              <<22, 11>>, <<47, 47>>, <<49, 49>>}

DefaultSlide == <<SlideW, SlideH>>

Canvases == {DefaultSlide, <<960, 540>>, <<4, 3>>, <<1, 1>>}

\* the path of the i-th video when the names do not matter: v<i>.mp4
DefaultName(i) == <<"v">> \o Digits(i) \o <<".", "m", "p", "4">>

\* the worker has been started on a batch with the given path strings
InitNamed(batch, names, fmt, interval, canvas) ==
    /\ video_paths = batch
    /\ file_names = names
    /\ written = <<>>
    /\ scratch = <<>>
    /\ disk = {}
    /\ convert_button = FALSE
    /\ ui_queue = <<>>
    /\ displayed = <<>>
    /\ others = <<>>
    /\ output_format = fmt
    /\ frame_interval = interval
    /\ slide_size = canvas
    /\ pc = "start"
    /\ idx = 0
    /\ frames = <<>>
    /\ extract_log = <<>>
    /\ result = False
    /\ last_doc = NoDoc
    /\ progress_details = [total_files |-> 0, processed_files |-> 0,
                           successful_conversions |-> 0, failed_conversions |-> 0]
    /\ emitted = <<>>
    /\ completed = <<>>
    /\ outcomes = <<>>
    /\ events = <<>>

InitWith(batch, fmt, interval, canvas) ==
    InitNamed(batch, [i \in DOMAIN batch |-> DefaultName(i)], fmt, interval, canvas)

\* a batch of up to MaxTasks videos
Init ==
    \E batch \in Batches, fmt \in {"pdf", "pptx", "txt"} :
        InitWith(batch, fmt, 1, DefaultSlide)

Next == RunStart \/ ProcessExtract \/ ProcessRender \/ RunAccount \/ RunFinish

Spec == Init /\ [][Next]_vars

\* one video, sampled: every source and interval
SampleInit ==
    \/ \E src \in SampleSources, interval \in 1..MaxInterval :
          InitWith(<<src>>, "pdf", interval, DefaultSlide)
    \/ InitWith(<<HourLong>>, "pdf", MaxInterval, DefaultSlide)

SampleNext == RunStart \/ ProcessExtract

SpecSample == SampleInit /\ [][SampleNext]_vars

\* one video of 1..MaxRun samples, rendered
RenderInit ==
    \E n \in 1..MaxRun, fmt \in {"pdf", "pptx"} :
        InitWith(<<RunSource(n, HD)>>, fmt, 1, DefaultSlide)

SpecRender == RenderInit /\ [][Next]_vars

\* one video of one sample, rendered as a slide: every image size and canvas
ScaleInit ==
    \E size \in ScaleSizes, canvas \in Canvases :
        InitWith(<<RunSource(1, size)>>, "pptx", 1, canvas)

SpecScale == ScaleInit /\ [][Next]_vars

\* the stems of the file names tried: letters and dots, not "." or ".."
Stems ==
    UNION {[1..n -> {"a", "b", "."}] : n \in 1..MaxName} \ {<<".">>, <<".", ".">>}

\* file names with and without the extension ".m", alone or below a
\* directory whose name has a dot
FilePaths ==
    LET files == Stems \cup {stem \o <<".", "m">> : stem \in Stems}
    IN  files \cup {<<"/", "d", ".", "x", "/">> \o file : file \in files}

\* pairs of file names that differ before the final extension
PairPaths ==
    {<<"a", ".", "m">>, <<"b", ".", "m">>, <<"a", ".", "b", ".", "m">>,
     <<"a", ".", "a", ".", "m">>}

\* one or two videos of one sample each, rendered: every file name
NameInit ==
    \/ \E name \in FilePaths, fmt \in {"pdf", "pptx"} :
          InitNamed(<<RunSource(1, HD)>>, <<name>>, fmt, 1, DefaultSlide)
    \/ \E first \in PairPaths, second \in PairPaths, fmt \in {"pdf", "pptx"} :
          InitNamed(<<RunSource(1, HD), RunSource(1, HD)>>, <<first, second>>,
                    fmt, 1, DefaultSlide)

SpecName == NameInit /\ [][Next]_vars

\* a video of one frame: one sample
OneFrame == RunSource(1, HD)

\* the window after the first click on Start Conversion: a selection of one
\* or two videos, the first worker started, the button disabled
UiInit ==
    \E batch \in UNION {[1..n -> {Unopenable, OneFrame}] : n \in 1..2},
       fmt \in {"pdf", "pptx"} :
        InitWith(batch, fmt, 1, DefaultSlide)

UiNext ==
    \/ Next
    \/ convert_videos
    \/ update_detailed_progress
    \/ show_completion_message
    \/ \E w \in DOMAIN others : OtherStart(w)
    \/ \E w \in DOMAIN others : OtherExtract(w)
    \/ \E w \in DOMAIN others : OtherRender(w)
    \/ \E w \in DOMAIN others : OtherAccount(w)
    \/ \E w \in DOMAIN others : OtherFinish(w)

SpecUi == UiInit /\ [][UiNext]_vars

----------------------------------------------------------------------------
(* Properties of the orchestrator, checked under Spec                      *)

\* the positions in events of the calls of kind op made for task i
Calls(i, ops) == {a \in DOMAIN events : events[a].task = i /\ events[a].op \in ops}

\* the last message on completed_signal
Summary == completed[Len(completed)]

\* C1: run() processes every task of the batch exactly once and strictly in
\* input order: a task's sampling is followed at once by its rendering (if
\* any) and its accounting, the next task starts only after that, and a
\* failed task (empty run, null render result, exception) never keeps the
\* tasks after it from being processed.
C1_EveryTaskOnceInOrder ==
    /\ \A a, b \in DOMAIN events : a < b => events[a].task <= events[b].task
    /\ \A i \in 1..Len(video_paths) :
          /\ Cardinality(Calls(i, {"extract", "except"})) <= 1
          /\ Cardinality(Calls(i, {"render"})) <= 1
          /\ Cardinality(Calls(i, {"emit"})) <= 1
    /\ \A a \in DOMAIN events :
          /\ events[a].op \in {"extract", "except"} =>
                IF events[a].task = 1 THEN a = 1
                ELSE /\ a > 1
                     /\ events[a - 1].op = "emit"
                     /\ events[a - 1].task = events[a].task - 1
          /\ events[a].op = "render" =>
                /\ a > 1
                /\ events[a - 1].op = "extract"
                /\ events[a - 1].task = events[a].task
          /\ events[a].op = "emit" =>
                /\ a > 1
                /\ events[a - 1].op \in {"extract", "except", "render"}
                /\ events[a - 1].task = events[a].task
    /\ \A k \in DOMAIN outcomes : outcomes[k].task = k
    /\ pc \in {"final", "done"} =>
          /\ Len(outcomes) = Len(video_paths)
          /\ \A i \in 1..Len(video_paths) :
                /\ Cardinality(Calls(i, {"extract", "except"})) = 1
                /\ Cardinality(Calls(i, {"emit"})) = 1

\* C1 witness: a batch of three is finished although its first task raised
\* and its second task's renderer returned no document.
C1_Witness ==
    /\ pc = "done"
    /\ Len(video_paths) = 3
    /\ Calls(1, {"except"}) # {}
    /\ Calls(2, {"render"}) # {}
    /\ ~outcomes[1].success
    /\ ~outcomes[2].success
    /\ outcomes[3].success

\* C2: exactly one progress update is emitted per task; the k-th update has
\* processed_files = k and successful + failed = k; the final summary has
\* total = successful + failed = number of tasks; three tasks of which only
\* the second fails give total 3, successful 2, failed 1.
C2_ProgressCounts ==
    /\ Len(emitted) = Len(outcomes)
    /\ \A k \in DOMAIN emitted :
          /\ emitted[k].processed_files = k
          /\ emitted[k].successful_conversions + emitted[k].failed_conversions = k
          /\ emitted[k].successful_conversions =
                Cardinality({i \in 1..k : outcomes[i].success})
          /\ emitted[k].total_files = Len(video_paths)
          /\ Cardinality(Calls(k, {"emit"})) = 1
    /\ pc = "done" =>
          /\ Summary.kind = "summary"
          /\ Summary.total = Len(video_paths)
          /\ Summary.successful + Summary.failed = Summary.total
          /\ Summary.failed = Cardinality({i \in DOMAIN outcomes : ~outcomes[i].success})
          /\ (/\ Len(video_paths) = 3
              /\ outcomes[1].success /\ ~outcomes[2].success /\ outcomes[3].success)
                => /\ Summary.total = 3
                   /\ Summary.successful = 2
                   /\ Summary.failed = 1

\* C2 witness: three tasks, the second unreadable, the others converted.
C2_Witness ==
    /\ pc = "done"
    /\ video_paths = <<Good, Unopenable, Good>>
    /\ Len(emitted) = 3
    /\ Summary = [kind |-> "summary", total |-> 3, successful |-> 2, failed |-> 1]

\* C3: a task whose sampling gives an empty run is recorded as failed and
\* no renderer is called for it; a renderer only ever gets a run of at
\* least one frame.
C3_EmptyRunNeverRendered ==
    /\ pc = "render" => Len(frames) >= 1
    /\ last_doc.kind \in {"pdf", "pptx"} => Len(last_doc.imgs) >= 1
    /\ \A a \in DOMAIN events :
          /\ events[a].op = "render" => events[a].n >= 1
          /\ (events[a].op = "extract" /\ events[a].n = 0) =>
                /\ Calls(events[a].task, {"render"}) = {}
                /\ a < Len(events) => events[a + 1].op = "emit"
                /\ \A k \in DOMAIN outcomes :
                      outcomes[k].task = events[a].task => ~outcomes[k].success

\* C3 witness: the first task sampled nothing and is counted as failed
\* while the second task was rendered.
C3_Witness ==
    /\ Len(outcomes) >= 2
    /\ \E a \in DOMAIN events :
          events[a].op = "extract" /\ events[a].task = 1 /\ events[a].n = 0
    /\ ~outcomes[1].success
    /\ Calls(1, {"render"}) = {}
    /\ Calls(2, {"render"}) # {}
    /\ progress_details.failed_conversions >= 1

----------------------------------------------------------------------------
(* Properties of the sampler, checked under SpecSample (one video)         *)

DigitValue(c) == CHOOSE d \in 0..9 : Digit(d) = c

RECURSIVE ParseNat(_)
ParseNat(cs) ==
    IF cs = <<>> THEN 0
    ELSE 10 * ParseNat(SubSeq(cs, 1, Len(cs) - 1)) + DigitValue(cs[Len(cs)])

\* the integer a decimal text stands for
ParseInt(cs) == IF cs[1] = "-" THEN -ParseNat(Tail(cs)) ELSE ParseNat(cs)

\* the frame index in the file name frame_<index>.jpg
NameIndex(file) == ParseInt(SubSeq(file, 7, Len(file) - 4))

\* the seconds an H:M:S text stands for
TsSeconds(ts) ==
    LET colons == {i \in DOMAIN ts : ts[i] = ":"}
        c1 == CHOOSE i \in colons : \A j \in colons : i <= j
        c2 == CHOOSE i \in colons : \A j \in colons : i >= j
    IN  3600 * ParseInt(SubSeq(ts, 1, c1 - 1))
          + 60 * ParseInt(SubSeq(ts, c1 + 1, c2 - 1))
          + ParseInt(SubSeq(ts, c2 + 1, Len(ts)))

\* t = i / fps laid out as HH:MM:SS with floor semantics
FloorFormatted(i, fps) ==
    LET d  == IF fps > 0 THEN fps ELSE -fps
        n  == IF fps > 0 THEN i * FpsUnit ELSE -(i * FpsUnit)
        h  == n \div (3600 * d)
        r  == n - 3600 * d * h
        m  == r \div (60 * d)
        r2 == n - 60 * d * (n \div (60 * d))
    IN  ZeroPad(h, 2) \o <<":">> \o ZeroPad(m, 2) \o <<":">> \o ZeroPad(r2 \div d, 2)

\* the sampler has returned for the only video of the batch
Sampled == events # <<>> /\ events[1].op = "extract"

TheSource == video_paths[1]

\* C4: extract_frames returns an empty run and does not raise when the
\* source cannot be opened (missing file, capture not opened) or reports
\* no frame.
C4_SoftFailure ==
    Sampled /\ (TheSource.status # "ok" \/ TheSource.total_frames = 0) =>
        /\ frames = <<>>
        /\ events[1].n = 0
        /\ ~events[1].raised
        /\ pc = "account"

\* C4 witness: a missing file was sampled: empty run, error logged.
C4_Witness ==
    /\ Sampled
    /\ TheSource.status = "missing"
    /\ frames = <<>>
    /\ events[1].diag

\* C5, as claimed: a source whose frame rate is zero or negative is treated
\* as unreadable: empty run and an error diagnostic.
C5_NonPositiveFpsUnreadable ==
    Sampled /\ TheSource.status = "ok" /\ TheSource.fps <= 0 =>
        /\ frames = <<>>
        /\ events[1].diag

\* C6: with fps > 0, N >= 1 frames and every decode succeeding the sampler
\* visits exactly the indices 0, stride, 2 * stride, ... below N and
\* returns ceil(N / stride) frames; at fps 30 and N = 300 that is
\* ceil(300 / (30 * interval)) frames, a single frame at index 0 once the
\* stride exceeds N; the stride is at least 1 for every input.
C6_FrameCount ==
    /\ Stride(TheSource.fps, frame_interval) >= 1
    /\ (/\ Sampled
        /\ TheSource.status = "ok"
        /\ TheSource.fps > 0
        /\ TheSource.total_frames >= 1
        /\ TheSource.bad = {}) =>
          LET stride == Stride(TheSource.fps, frame_interval)
              N      == TheSource.total_frames
          IN  /\ Len(frames) = CeilDiv(N, stride)
              /\ \A k \in DOMAIN frames :
                    /\ NameIndex(frames[k].path.file) = (k - 1) * stride
                    /\ NameIndex(frames[k].path.file) < N
              /\ (TheSource.fps = 30 * FpsUnit /\ N = 300) =>
                    /\ Len(frames) = CeilDiv(300, 30 * frame_interval)
                    /\ 30 * frame_interval > 300 => Len(frames) = 1

\* C6 witness: fps 30, 300 frames, an interval of 30 s: one frame, index 0.
C6_Witness ==
    /\ Sampled
    /\ TheSource.fps = 30 * FpsUnit
    /\ TheSource.total_frames = 300
    /\ frame_interval = 30
    /\ Len(frames) = 1
    /\ NameIndex(frames[1].path.file) = 0

\* C7, as claimed: the timestamps of a run never decrease, and each is
\* index / fps laid out as HH:MM:SS with floor semantics (index 125 at
\* fps 25 is 00:00:05).
C7_Timestamps ==
    Sampled =>
        \A k \in DOMAIN frames :
            /\ frames[k].timestamp =
                  FloorFormatted(NameIndex(frames[k].path.file), TheSource.fps)
            /\ k < Len(frames) =>
                  TsSeconds(frames[k].timestamp) <= TsSeconds(frames[k + 1].timestamp)
            /\ (NameIndex(frames[k].path.file) = 125 /\ TheSource.fps = 25 * FpsUnit) =>
                  frames[k].timestamp = <<"0", "0", ":", "0", "0", ":", "0", "5">>

\* C7 restricted to the sources the sampler is meant to accept, fps > 0
C7_TimestampsPositiveFps == TheSource.fps > 0 => C7_Timestamps

\* index 125 of a 25 fps source was sampled and stamped 00:00:05
C7_Example ==
    /\ Sampled
    /\ TheSource.fps = 25 * FpsUnit
    /\ \E k \in DOMAIN frames :
          /\ NameIndex(frames[k].path.file) = 125
          /\ frames[k].timestamp = <<"0", "0", ":", "0", "0", ":", "0", "5">>

\* round(n / d) for n >= 0 and d > 0, halves to the even neighbour
Round(n, d) ==
    LET q == n \div d
        r == n % d
    IN  IF 2 * r < d THEN q
        ELSE IF 2 * r > d THEN q + 1
        ELSE IF q % 2 = 0 THEN q ELSE q + 1

\* the distance, in source frames, between the first two samples of the run
ObservedStride == NameIndex(frames[2].path.file) - NameIndex(frames[1].path.file)

\* C12, as claimed: for every positive frame rate, 29.97 and 23.976
\* included, and every interval of 1 to 60 seconds the stride between two
\* samples is max(1, round(fps * interval)).
C12_StrideRounded ==
    (Sampled /\ TheSource.status = "ok" /\ TheSource.fps > 0 /\ Len(frames) >= 2) =>
        ObservedStride = Max(1, Round(TheSource.fps * frame_interval, FpsUnit))

\* the stride the code uses: the product truncated, not rounded
C12_StrideTruncated ==
    (Sampled /\ TheSource.status = "ok" /\ TheSource.fps > 0 /\ Len(frames) >= 2) =>
        ObservedStride = Max(1, (TheSource.fps * frame_interval) \div FpsUnit)

\* at 29.97 frames per second and an interval of 1 s the second sample is
\* frame 29
C12_Example ==
    /\ Sampled
    /\ TheSource.fps = 29970
    /\ frame_interval = 1
    /\ Len(frames) >= 2
    /\ ObservedStride = 29

\* the code point of a character of a frame file name
Ord(c) ==
    CASE c = "-" -> 45
      [] c = "." -> 46
      [] c \in {"0", "1", "2", "3", "4", "5", "6", "7", "8", "9"} -> 48 + DigitValue(c)
      [] c = "_" -> 95
      [] OTHER -> 97 + (CHOOSE i \in 0..25 :
                           c = <<"a", "b", "c", "d", "e", "f", "g", "h", "i", "j", "k",
                                 "l", "m", "n", "o", "p", "q", "r", "s", "t", "u", "v",
                                 "w", "x", "y", "z">>[i + 1])

RECURSIVE LexLess(_, _)
\* a < b as strings
LexLess(a, b) ==
    IF b = <<>> THEN FALSE
    ELSE IF a = <<>> THEN TRUE
    ELSE IF a[1] # b[1] THEN Ord(a[1]) < Ord(b[1])
    ELSE LexLess(Tail(a), Tail(b))

\* the number in a frame file name, as written: what lies between "frame_" and ".jpg"
NameNumber(file) == SubSeq(file, 7, Len(file) - 4)

\* the file names of the run sort, as strings, in the order sampled
LexOrdered ==
    \A k \in 1..(Len(frames) - 1) :
        LexLess(frames[k].path.file, frames[k + 1].path.file)

\* C13, as claimed: the k-th sample of a run is named with the number k,
\* counted per sample and not per source frame, zero-padded to a fixed
\* width of at least 5 digits, so the file names of a run of up to 100,000
\* samples sort, as strings, in the order sampled, however long the source.
C13_SequenceNumbers ==
    Sampled =>
        /\ \/ \A k \in DOMAIN frames : NameIndex(frames[k].path.file) = k
           \/ \A k \in DOMAIN frames : NameIndex(frames[k].path.file) = k - 1
        /\ \A k \in DOMAIN frames :
              /\ Len(NameNumber(frames[k].path.file)) >= 5
              /\ Len(NameNumber(frames[k].path.file)) = Len(NameNumber(frames[1].path.file))
        /\ LexOrdered

\* what the code does: the number is the index of the frame in the source
C13_SourceFrameNumbers ==
    (Sampled /\ TheSource.status = "ok") =>
        \A k \in DOMAIN frames :
            /\ NameIndex(frames[k].path.file)
                  = (k - 1) * Stride(TheSource.fps, frame_interval)
            /\ Len(NameNumber(frames[k].path.file)) >= 5

\* C13 for sources of fewer than 100,000 frames: the order part holds
C13_OrderedBelow100000 ==
    (Sampled /\ TheSource.total_frames < 100000) => LexOrdered

\* the 56th and 57th samples of the hour-long source are frame_99000.jpg
\* and frame_100800.jpg: 57 samples, and the later name sorts first
C13_Example ==
    /\ Sampled
    /\ TheSource = HourLong
    /\ Len(frames) = 57
    /\ NameNumber(frames[56].path.file) = <<"9", "9", "0", "0", "0">>
    /\ NameNumber(frames[57].path.file) = <<"1", "0", "0", "8", "0", "0">>
    /\ LexLess(frames[57].path.file, frames[56].path.file)

----------------------------------------------------------------------------
(* Properties of the renderers, checked under SpecRender (one video)       *)

\* a renderer has been called for the only video of the batch
Rendered == last_doc.kind \in {"pdf", "pptx"}

\* frame k of the run has its image in the document
Placed(doc, k) ==
    IF doc.kind = "pdf"
        THEN \E p \in DOMAIN doc.pages : \E e \in DOMAIN doc.pages[p] :
                doc.pages[p][e].type = "image" /\ doc.pages[p][e].frame = k
        ELSE \E q \in DOMAIN doc.slides :
                doc.slides[q].frame = k /\ doc.slides[q].picture # NoPicture

BadFrames(doc) == {k \in DOMAIN doc.imgs : doc.imgs[k] # "ok"}

\* C8, as claimed: both renderers are best-effort: every frame whose image
\* cannot be loaded, decoded or embedded is skipped with a warning, every
\* other frame is placed, and the document is saved and its path returned
\* even when no frame renders; null is returned only when the document
\* cannot be saved.
C8_BestEffort ==
    Rendered =>
        /\ last_doc.save_ok =>
              /\ result # None
              /\ last_doc.saved
              /\ \A k \in DOMAIN last_doc.imgs :
                    Placed(last_doc, k) <=> last_doc.imgs[k] = "ok"
              /\ last_doc.warnings = Cardinality(BadFrames(last_doc))
        /\ ~last_doc.save_ok => result = None

\* C8 for the paged renderer alone
C8_BestEffortPdf == last_doc.kind = "pdf" => C8_BestEffort

\* C8 for the slide renderer when no image fails at add_picture
C8_BestEffortPptxReadOnly ==
    (/\ last_doc.kind = "pptx"
     /\ \A k \in DOMAIN last_doc.imgs : last_doc.imgs[k] # "unembeddable")
        => C8_BestEffort

\* the images of a page, in the order they were placed
RECURSIVE ImagesOf(_)
ImagesOf(page) ==
    IF page = <<>> THEN <<>>
    ELSE (IF page[1].type = "image" THEN <<page[1]>> ELSE <<>>) \o ImagesOf(Tail(page))

\* the frames of a run of n that belong on page p (1-based) and load
RECURSIVE LoadableFrom(_, _, _)
LoadableFrom(imgs, k, last) ==
    IF k > last THEN <<>>
    ELSE (IF imgs[k] = "ok" THEN <<k>> ELSE <<>>) \o LoadableFrom(imgs, k + 1, last)

\* C9: the paged layout of n >= 1 frames has ceil(n / 3) pages; page p
\* holds frames 3p, 3p+1, 3p+2 of the run (0-based, those that exist and
\* load) in sampled order, slot j at y-offset {10, 90, 170}[j] with its
\* caption right below it on the same page, so no placement breaks the
\* page; when every image loads the last page has n - 3 (ceil(n/3) - 1)
\* slots and the others three.
C9_PagedLayout ==
    last_doc.kind = "pdf" =>
        LET n     == Len(last_doc.imgs)
            pages == last_doc.pages
        IN  /\ Len(pages) = CeilDiv(n, 3)
            /\ \A p \in DOMAIN pages :
                  LET first == 3 * (p - 1) + 1
                      last  == Min(3 * p, n)
                      imgsP == ImagesOf(pages[p])
                      want  == LoadableFrom(last_doc.imgs, first, last)
                  IN  /\ Len(imgsP) = Len(want)
                      /\ \A s \in DOMAIN imgsP :
                            /\ imgsP[s].frame = want[s]
                            /\ imgsP[s].y = <<10, 90, 170>>[want[s] - first + 1]
                      /\ Len(pages[p]) = 2 * Len(imgsP)
                      /\ \A e \in DOMAIN pages[p] :
                            pages[p][e].type = "caption" =>
                                /\ e > 1
                                /\ pages[p][e - 1].type = "image"
                                /\ pages[p][e - 1].frame = pages[p][e].frame
                                /\ pages[p][e].y = pages[p][e - 1].y + 80
                                /\ pages[p][e].text =
                                      <<frames[pages[p][e].frame].path.file,
                                        frames[pages[p][e].frame].timestamp>>
                      /\ BadFrames(last_doc) = {} =>
                            Len(imgsP) = IF p < Len(pages) THEN 3
                                         ELSE n - 3 * (CeilDiv(n, 3) - 1)

\* C9 witness: seven frames, all loading: three pages of 3, 3 and 1 slots.
C9_Witness ==
    /\ last_doc.kind = "pdf"
    /\ Len(last_doc.imgs) = 7
    /\ BadFrames(last_doc) = {}
    /\ Len(last_doc.pages) = 3
    /\ Len(ImagesOf(last_doc.pages[1])) = 3
    /\ Len(ImagesOf(last_doc.pages[2])) = 3
    /\ Len(ImagesOf(last_doc.pages[3])) = 1
    /\ ImagesOf(last_doc.pages[3])[1].frame = 7
    /\ ImagesOf(last_doc.pages[3])[1].y = 10

----------------------------------------------------------------------------
(* Properties of the slide scaling, checked under SpecScale                *)

RECURSIVE GCD(_, _)
GCD(a, b) == IF b = 0 THEN a ELSE GCD(b, a % b)

\* floor(x * a / b) without forming x * a
MulDivFloor(x, a, b) == x * (a \div b) + (x * (a % b)) \div b

\* the only slide of the deck has its picture
Scaled ==
    /\ last_doc.kind = "pptx"
    /\ Len(last_doc.slides) = 1
    /\ last_doc.slides[1].picture # NoPicture

ImageW == last_doc.size[1]
ImageHt == last_doc.size[2]
CanvasW == slide_size[1]
CanvasH == slide_size[2]
Picture == last_doc.slides[1].picture

\* imageW / canvasW >= imageH / canvasH, and the same with >
WidthRatioGE ==
    LET g == GCD(CanvasW, CanvasH) IN ImageW * (CanvasH \div g) >= ImageHt * (CanvasW \div g)

WidthRatioGT ==
    LET g == GCD(CanvasW, CanvasH) IN ImageW * (CanvasH \div g) > ImageHt * (CanvasW \div g)

\* the picture lies inside the canvas and is centred
FitsCentred ==
    /\ Picture.width <= CanvasW
    /\ Picture.height <= CanvasH
    /\ Picture.left = (CanvasW - Picture.width) \div 2
    /\ Picture.top = (CanvasH - Picture.height) \div 2
    /\ Picture.left >= 0
    /\ Picture.top >= 0

\* 1920x1080 on 960x540 fills the canvas; 1000x2000 on it is height-bound
\* and has a positive left
ScalingExamples ==
    /\ (last_doc.size = <<1920, 1080>> /\ slide_size = <<960, 540>>) =>
          Picture = [left |-> 0, top |-> 0, width |-> 960, height |-> 540]
    /\ (last_doc.size = <<1000, 2000>> /\ slide_size = <<960, 540>>) =>
          Picture.height = 540 /\ Picture.left > 0

\* C10, as claimed: the scaled image fits inside the canvas and is centred;
\* its width equals the canvas width when imageW/canvasW >= imageH/canvasH
\* (fit-to-width), else its height equals the canvas height.
C10_ScalingAsClaimed ==
    Scaled =>
        /\ FitsCentred
        /\ ScalingExamples
        /\ IF WidthRatioGE THEN Picture.width = CanvasW ELSE Picture.height = CanvasH

\* C10, amended: fit-to-width only when imageW/canvasW > imageH/canvasH,
\* fit-to-height otherwise (equal ratios included); the bound dimension is
\* the canvas dimension exactly and the other one is the proportional size
\* truncated to an integer, or one less than that.
C10_Scaling ==
    Scaled =>
        /\ FitsCentred
        /\ ScalingExamples
        /\ IF WidthRatioGT
               THEN /\ Picture.width = CanvasW
                    /\ Picture.height <= MulDivFloor(ImageHt, CanvasW, ImageW)
                    /\ Picture.height >= MulDivFloor(ImageHt, CanvasW, ImageW) - 1
               ELSE /\ Picture.height = CanvasH
                    /\ Picture.width <= MulDivFloor(ImageW, CanvasH, ImageHt)
                    /\ Picture.width >= MulDivFloor(ImageW, CanvasH, ImageHt) - 1

\* C10 witness: the portrait image 1000x2000 on the canvas 960x540.
C10_Witness ==
    /\ Scaled
    /\ last_doc.size = <<1000, 2000>>
    /\ slide_size = <<960, 540>>
    /\ Picture = [left |-> 345, top |-> 0, width |-> 270, height |-> 540]

----------------------------------------------------------------------------
(* Properties of the output names, checked under SpecName                  *)

\* a file name with only its final extension removed
FinalExtRemoved(name) == splitext(name).root

\* {baseName}.pdf or {baseName}.pptx inside the output folder
NamedAfter(video_path) ==
    join(output_folder,
         FinalExtRemoved(basename(video_path))
             \o (IF output_format = "pdf" THEN <<".", "p", "d", "f">>
                 ELSE <<".", "p", "p", "t", "x">>))

\* C11, as claimed: the document written for a task is {baseName}.pdf or
\* {baseName}.pptx inside the output folder, baseName being the video's
\* file name with only its final extension removed, whatever further dots
\* the name has; so two tasks whose file names differ before the final
\* extension never write the same path.
C11_OutputName ==
    /\ \A w \in DOMAIN written :
          written[w].path = NamedAfter(file_names[written[w].task])
    /\ \A v, w \in DOMAIN written :
          FinalExtRemoved(basename(file_names[written[v].task]))
                  # FinalExtRemoved(basename(file_names[written[w].task]))
              => written[v].path # written[w].path

\* C11 for file names with no dot before the final extension
C11_OutputNameOneDot ==
    (\A i \in DOMAIN file_names :
        splitext(base_name(file_names[i])).ext = <<>>) => C11_OutputName

\* two tasks, a.b.m and a.a.m, have both written out/a.pdf
C11_Collision ==
    /\ file_names = << <<"a", ".", "b", ".", "m">>, <<"a", ".", "a", ".", "m">> >>
    /\ Len(written) = 2
    /\ written[1].path = <<"o", "u", "t", "/", "a", ".", "p", "d", "f">>
    /\ written[2].path = written[1].path

----------------------------------------------------------------------------
(* Properties of the scratch directory, checked under Spec                 *)

\* the frame files on disk that task t of the worker wrote last
FilesOf(t) == {f \in disk : f.worker = 0 /\ f.task = t}

\* C14, as claimed: every task of a batch samples into its own scratch
\* directory, distinct from that of every other task, so no two tasks
\* write a frame file at the same path: every file a task has written is
\* still the one it wrote.
C14_OwnScratchDirectory ==
    /\ \A i, j \in DOMAIN scratch :
          scratch[i].task # scratch[j].task => scratch[i].dir # scratch[j].dir
    /\ \A e \in DOMAIN events :
          events[e].op = "extract" => Cardinality(FilesOf(events[e].task)) = events[e].n

\* two tasks have sampled the same video into the directory frames: the
\* files of the first are now those of the second
C14_Overwritten ==
    /\ Len(video_paths) = 2
    /\ video_paths[1] = Good
    /\ video_paths[2] = Good
    /\ Len(scratch) = 2
    /\ scratch[1].dir = "frames"
    /\ scratch[2].dir = "frames"
    /\ FilesOf(1) = {}
    /\ Cardinality(FilesOf(2)) = 2

\* C14 for batches in which at most one video yields frames
C14_SingleSampledTask ==
    Cardinality({i \in DOMAIN video_paths : video_paths[i] = Good}) <= 1 =>
        \A e \in DOMAIN events :
            events[e].op = "extract" => Cardinality(FilesOf(events[e].task)) = events[e].n

----------------------------------------------------------------------------
(* Properties of the slide deck, checked under SpecRender                  *)

\* a deck has been built and saved
DeckSaved == last_doc.kind = "pptx" /\ last_doc.saved

\* the frames of the run whose image cv2.imread decodes, in sampled order
Decoded == LoadableFrom(last_doc.imgs, 1, Len(last_doc.imgs))

\* C15, as claimed: the deck holds one slide per frame that decodes, in
\* sampled order; a frame whose image fails to decode adds no slide; the
\* slide of the k-th frame of the run (1-based, skipped frames counted) is
\* titled "Frame k : <timestamp of that frame>".
C15_SlidesForDecodedFrames ==
    DeckSaved =>
        /\ Len(last_doc.slides) = Len(Decoded)
        /\ \A q \in DOMAIN last_doc.slides :
              q <= Len(Decoded) =>
                  /\ last_doc.slides[q].frame = Decoded[q]
                  /\ last_doc.slides[q].picture # NoPicture
                  /\ last_doc.slides[q].title
                        = TitleText(Decoded[q], frames[Decoded[q]].timestamp)

\* what the code does: one slide per frame of the run, empty (no picture,
\* no title) when the frame does not decode
C15_SlidePerFrame ==
    DeckSaved =>
        /\ Len(last_doc.slides) = Len(last_doc.imgs)
        /\ \A k \in DOMAIN last_doc.slides :
              /\ last_doc.slides[k].frame = k
              /\ IF last_doc.imgs[k] = "ok"
                     THEN /\ last_doc.slides[k].picture # NoPicture
                          /\ last_doc.slides[k].title = TitleText(k, frames[k].timestamp)
                     ELSE /\ last_doc.slides[k].picture = NoPicture
                          /\ last_doc.slides[k].title = <<>>

\* a saved deck of three slides whose second frame did not decode: the
\* second slide is empty and the third is titled "Frame 3 : 00:00:02"
C15_EmptySlide ==
    /\ DeckSaved
    /\ last_doc.imgs = <<"ok", "unreadable", "ok">>
    /\ Len(last_doc.slides) = 3
    /\ last_doc.slides[2].picture = NoPicture
    /\ last_doc.slides[3].title =
          <<"F", "r", "a", "m", "e", " ", "3", " ", ":", " ",
            "0", "0", ":", "0", "0", ":", "0", "2">>

----------------------------------------------------------------------------
(* Properties of the window and its workers, checked under SpecUi          *)

\* C16, as claimed: every progress update that update_detailed_progress
\* displays shows the processed, succeeded and failed values that held
\* when that update was emitted, under every interleaving of the worker
\* and the UI thread.
C16_DisplayedAsEmitted ==
    \A d \in DOMAIN displayed : displayed[d].shown = displayed[d].sent

\* the update emitted after the first of two tasks is displayed with the
\* counts of both tasks
C16_StaleDisplay ==
    /\ Len(displayed) >= 1
    /\ displayed[1].worker = 0
    /\ displayed[1].sent.processed_files = 1
    /\ displayed[1].shown.processed_files = 2

\* C16 for batches of one video, while no other worker has been started
C16_SingleTask ==
    (Len(video_paths) = 1 /\ others = <<>>) => C16_DisplayedAsEmitted

\* the workers that have not yet emitted their final summary
Running ==
    (IF pc # "done" THEN {0} ELSE {})
        \cup {w \in DOMAIN others : others[w].pc # "done"}

\* C17, as claimed: at most one conversion worker runs at any time: from
\* the accepted click until the batch's final summary has been emitted the
\* Start Conversion button stays disabled, failed tasks or not; it is
\* enabled again only once the whole batch is finished.
C17_OneWorkerAtATime ==
    /\ Cardinality(Running) <= 1
    /\ Running # {} => ~convert_button

\* the first of two tasks has failed and its message has been shown: the
\* button is enabled while the worker is still at the second task
C17_EnabledMidBatch ==
    /\ Len(video_paths) = 2
    /\ pc = "extract"
    /\ idx = 2
    /\ progress_details.failed_conversions = 1
    /\ convert_button
    /\ others = <<>>

\* two workers are running at once
C17_TwoWorkers == Cardinality(Running) = 2

\* C17 for as long as no task of any worker has failed
C17_WhileNoFailure ==
    (/\ progress_details.failed_conversions = 0
     /\ \A w \in DOMAIN others : others[w].progress_details.failed_conversions = 0)
        => C17_OneWorkerAtATime

\* the frame files of a run are those that the given task of the given
\* worker wrote, at pairwise distinct paths
OwnFrames(fs, worker, task) ==
    /\ \A k \in DOMAIN fs :
          [path |-> fs[k].path, worker |-> worker, task |-> task] \in disk
    /\ \A j, k \in DOMAIN fs : j # k => fs[j].path # fs[k].path

\* C18, as claimed: from a task's sampling to the end of its render step
\* every frame path of its run refers to the image this task's sampling
\* wrote: the paths of a run are pairwise distinct and no other task or
\* batch overwrites or removes any of them in between.
C18_FramesOutliveRender ==
    /\ pc = "render" => OwnFrames(frames, 0, idx)
    /\ \A w \in DOMAIN others :
          others[w].pc = "render" => OwnFrames(others[w].frames, w, others[w].idx)

\* worker 0 is about to render its second task and its only frame file was
\* last written by the worker of the second click
C18_OverwrittenBeforeRender ==
    /\ pc = "render"
    /\ idx = 2
    /\ Len(frames) = 1
    /\ Len(others) = 1
    /\ [path |-> frames[1].path, worker |-> 1, task |-> 2] \in disk

\* C18 while the worker of the first click is the only one
C18_SingleWorker == others = <<>> => C18_FramesOutliveRender

====
